---- MODULE Spec2Model ----
(***************************************************************************)
(* The comment forest of praw/objects.py: Submission._insert_comment,      *)
(* Submission._replace_more_comments, MoreComments.comments,               *)
(* Submission.comments_flat and the properties around them.                *)
(*                                                                         *)
(* Python objects are numbered 1..Len(World); a list is a sequence of      *)
(* object numbers, a dict a function whose DOMAIN is its key set.          *)
(***************************************************************************)
EXTENDS Integers, Sequences, FiniteSets, TLC

(***************************************************************************)
(* Python's None.  It stands where an integer or an object may stand       *)
(* (remaining, the parent of a queue entry); NoneSeq stands where a list   *)
(* may stand (_comments, _comments_flat, MoreComments._comments).          *)
(***************************************************************************)
None == -1
NoneSeq == <<None>>

\* Largest more_comments_max the configuration is drawn from (-1 = unlimited).
MaxBudget == 1
\* Largest number of things in one response of the morechildren endpoint.
MaxResp == 2
\* Largest number of direct _insert_comment calls between two loads.
MaxInserts == 1
\* Largest number of requests made by calls of MoreComments.comments from outside.
MaxCalls == 1

\* Largest comment_limit (and, negated, smallest) the configuration is drawn from.
MaxLimit == 3
\* Largest gold_comments_max / regular_comments_max the configuration is drawn from.
MaxClassMax == 2
\* Largest number of requests made by the replies accessor of one comment.
MaxFetches == 2

\* The content id of the submission (RedditContentObject.content_id).
SubmissionId == "t3_s"

(***************************************************************************)
(* The objects the API layer can construct from JSON.  A Comment is built  *)
(* with _replies the list of its nested children ('' gives []), a          *)
(* MoreComments with its list of child ids.                                *)
(***************************************************************************)
Comment(id, parent_id, replies) ==
    [kind |-> "t1", id |-> id, parent_id |-> parent_id,
     replies |-> replies, children |-> <<>>]

MoreComments(id, children) ==
    [kind |-> "more", id |-> id, parent_id |-> "None",
     replies |-> <<>>, children |-> children]

World ==
    << Comment("a", SubmissionId, <<2, 3>>),   \* 1  top-level comment
       Comment("b", "t1_a", <<4>>),            \* 2  reply to a
       MoreComments("m3", <<"b">>),            \* 3  under a, its child known
       MoreComments("m4", <<"d", "e">>),       \* 4  under b
       MoreComments("m5", <<"c", "f">>),       \* 5  top-level placeholder
       Comment("c", SubmissionId, <<>>),       \* 6  top-level comment
       Comment("d", "t1_c", <<>>),             \* 7  reply to c
       Comment("e", "t1_d", <<>>),             \* 8  reply to d
       Comment("e", "t1_d", <<>>),             \* 9  e delivered again
       Comment("f", "None", <<>>),             \* 10 null parent_id
       Comment("g", "t1_b", <<>>),             \* 11 reply to b
       MoreComments("m12", <<"e", "f">>),      \* 12 returned by morechildren
       Comment("h", "t1_h", <<>>),             \* 13 parent_id is its own name
       Comment("u", "t1_z", NoneSeq),          \* 14 built without a replies tree
       Comment("v", "t1_u", <<>>),             \* 15 reply to u
       Comment("w", "t1_z", NoneSeq),          \* 16 built without a replies tree
       Comment("c", SubmissionId, <<18>>),     \* 17 c delivered with a reply nested
       Comment("i", "t1_c", <<>>),             \* 18 reply to c, nested in 17
       Comment("a", SubmissionId, <<>>),       \* 19 a, built again for a later listing
       MoreComments("m20", <<"c">>) >>         \* 20 top-level placeholder of that listing

Objects == 1..Len(World)
IsMore(o) == World[o].kind = "more"
IsComment(o) == World[o].kind = "t1"

\* The listings the comments endpoint can deliver (c_info['data']['children']).
Listings == { <<1, 5>> }

\* The listing a later assignment of submission.comments can deliver.
Relistings == { <<19, 20>> }

\* Comments built from JSON that carries no replies (a user's comments page,
\* the inbox): Comment.__init__ leaves their _replies None.
Loose == {14, 16}

\* The objects a morechildren response (response['data']['things']) is made of.
Things == (6..13) \cup {17}

\* RedditContentObject.content_id: '%s_%s' % (by_object[class], self.id)
content_id(o) == World[o].kind \o "_" \o World[o].id

\* The name attribute the API delivers with a comment: its content id.
name(o) == "t1_" \o World[o].id

parent_id(o) == World[o].parent_id

\* RedditContentObject.__eq__
Eq(o1, o2) == content_id(o1) = content_id(o2)

\* x in list: identity or __eq__
ListContains(list, o) == \E i \in 1..Len(list) : list[i] = o \/ Eq(list[i], o)

\* The index list.remove(o) deletes: the first item that is o or equals o; 0 if none.
FirstIndex(list, o) ==
    IF ListContains(list, o)
    THEN CHOOSE i \in 1..Len(list) :
             /\ list[i] = o \/ Eq(list[i], o)
             /\ \A j \in 1..(i-1) : ~(list[j] = o \/ Eq(list[j], o))
    ELSE 0

\* list.remove(o), for a list that contains o
ListRemove(list, o) ==
    LET k == FirstIndex(list, o)
    IN  SubSeq(list, 1, k-1) \o SubSeq(list, k+1, Len(list))

\* del dict[key]
DictDel(dict, key) == [k \in DOMAIN dict \ {key} |-> dict[k]]

\* dict[key] = value
DictSet(dict, key, value) == (key :> value) @@ dict

\* The objects of a tree of constructed objects: o and everything nested in it.
RECURSIVE Nested(_)
Nested(o) ==
    {o} \cup UNION { Nested(World[o].replies[i]) : i \in 1..Len(World[o].replies) }

RECURSIVE NestedAll(_)
NestedAll(list) ==
    IF list = <<>> THEN {} ELSE Nested(Head(list)) \cup NestedAll(Tail(list))

VARIABLES
    comments,           \* Submission._comments: NoneSeq or the list of roots
    comments_by_id,     \* Submission._comments_by_id
    orphaned,           \* Submission._orphaned
    all_comments,       \* Submission._all_comments
    comments_flat,      \* Submission._comments_flat: NoneSeq or a list
    replies,            \* Comment._replies of every comment object
    mc_comments,        \* MoreComments._comments of every placeholder object
    submission,         \* the objects whose submission reference is set
    more_comments_max,  \* reddit_session.config.more_comments_max
    constructed,        \* the objects built from a response so far
    pc,                 \* "idle", or "loop" inside _replace_more_comments
    queue,              \* local of _replace_more_comments
    remaining,          \* local of _replace_more_comments
    skipped,            \* local of _replace_more_comments
    requests,           \* request_json calls of the running/last expansion
    warning,            \* count named by the last expansion's warning, None if none
    inserts,            \* direct _insert_comment calls since the last load
    was_orphan,         \* comments that have been stored in _orphaned
    calls,              \* requests made by outside calls of MoreComments.comments
    raised,             \* whether the last operation ended by raising
    config,             \* reddit_session.config and the user's class, as get_info reads them
    url_data,           \* the limit get_info sent last (None: no limit), and whether it warned
    replies_fetches     \* requests made by the replies accessor, per comment

vars == << comments, comments_by_id, orphaned, all_comments, comments_flat,
           replies, mc_comments, submission, more_comments_max, constructed,
           pc, queue, remaining, skipped, requests, warning, inserts,
           was_orphan, calls, raised, config, url_data, replies_fetches >>


\* An empty dict.
EmptyDict == [k \in {} |-> <<>>]

\* The forest as one value: the fields the insertion routines read and write.
Forest ==
    [comments |-> comments, comments_by_id |-> comments_by_id,
     orphaned |-> orphaned, replies |-> replies, submission |-> submission,
     was_orphan |-> was_orphan]

(***************************************************************************)
(* Comment._update_submission / MoreComments._update_submission            *)
(***************************************************************************)
\* _update_submission without the line submission._comments_by_id[self.name] = self
UpdateWithoutRegister(F, o) == [F EXCEPT !.submission = @ \cup {o}]

RECURSIVE _update_submission(_, _)
RECURSIVE UpdateEach(_, _)

\* for reply in list: reply._update_submission(submission)
UpdateEach(F, list) ==
    IF list = <<>> THEN F
    ELSE UpdateEach(_update_submission(F, Head(list)), Tail(list))

_update_submission(F, o) ==
    IF IsMore(o)
    THEN [F EXCEPT !.submission = @ \cup {o}]
    ELSE UpdateEach([F EXCEPT !.comments_by_id = DictSet(@, name(o), o),
                              !.submission = @ \cup {o}],
                    F.replies[o])

\* is_root without the test for a null parent_id
IsRootOfSubmissionOnly(o) == parent_id(o) = SubmissionId

\* Comment.is_root
is_root(o) == parent_id(o) = "None" \/ parent_id(o) = SubmissionId

\* The orphan branch of _insert_comment: self._orphaned[parent_id] gets comment.
AddOrphan(dict, c) ==
    IF parent_id(c) \in DOMAIN dict
    THEN [dict EXCEPT ![parent_id(c)] = Append(@, c)]
    ELSE DictSet(dict, parent_id(c), <<c>>)

\* The reunion without del self._orphaned[comment.name]
ReuniteKeepingEntry(F, c) ==
    IF name(c) \in DOMAIN F.orphaned
    THEN [F EXCEPT !.replies[c] = @ \o F.orphaned[name(c)]]
    ELSE F

\* The reunion that deletes the orphan entry without extending the replies
ReuniteDropping(F, c) ==
    IF name(c) \in DOMAIN F.orphaned
    THEN [F EXCEPT !.orphaned = DictDel(@, name(c))]
    ELSE F

\* Reunite children with parent: comment.replies.extend(...); del self._orphaned[...]
Reunite(F, c) ==
    IF name(c) \in DOMAIN F.orphaned
    THEN [F EXCEPT !.replies[c] = @ \o F.orphaned[name(c)],
                   !.orphaned = DictDel(@, name(c))]
    ELSE F

\* The placement of _insert_comment: root, reply of a known parent, or orphan.
Place(F, c) ==
    IF is_root(c)
    THEN [F EXCEPT !.comments = Append(@, c)]
    ELSE IF parent_id(c) \in DOMAIN F.comments_by_id
    THEN [F EXCEPT !.replies[F.comments_by_id[parent_id(c)]] = Append(@, c)]
    ELSE [F EXCEPT !.orphaned = AddOrphan(@, c),
                   !.was_orphan = @ \cup {c}]

\* _insert_comment without the early return for a known name
InsertKnownToo(F, c) == Place(Reunite(_update_submission(F, c), c), c)

\* Submission._insert_comment
_insert_comment(F, c) ==
    IF name(c) \in DOMAIN F.comments_by_id
    THEN F
    ELSE Place(Reunite(_update_submission(F, c), c), c)

\* Submission._update_comments
_update_comments(F, new_comments) ==
    UpdateEach([F EXCEPT !.comments = new_comments], new_comments)

\* The comments setter: _update_comments, then the three resets.
comments_setter(F, new_comments) ==
    [_update_comments(F, new_comments) EXCEPT !.orphaned = EmptyDict]

(***************************************************************************)
(* Submission.comments_flat: the traversal loop.  The result is the list   *)
(* built so far and whether the duplicate assertion held throughout.       *)
(***************************************************************************)
RECURSIVE FlatLoop(_, _, _)
FlatLoop(F, stack, flat) ==
    IF stack = <<>> THEN [flat |-> flat, ok |-> TRUE]
    ELSE LET comment == Head(stack)
         IN  IF ListContains(flat, comment)
             THEN [flat |-> flat, ok |-> FALSE]
             ELSE FlatLoop(F,
                           IF IsComment(comment)
                           THEN F.replies[comment] \o Tail(stack)
                           ELSE Tail(stack),
                           Append(flat, comment))

Flatten(F) == FlatLoop(F, F.comments, <<>>)

ExpandLocals == << pc, queue, remaining, skipped, requests, warning >>

SetForest(F) ==
    /\ comments' = F.comments
    /\ comments_by_id' = F.comments_by_id
    /\ orphaned' = F.orphaned
    /\ replies' = F.replies
    /\ submission' = F.submission
    /\ was_orphan' = F.was_orphan

(***************************************************************************)
(* Submission.get_info: the limit parameter of the request for the         *)
(* comments, and the warning about a comment_limit above the maximum.      *)
(***************************************************************************)
class_max(cfg) ==
    IF cfg.is_gold THEN cfg.gold_comments_max ELSE cfg.regular_comments_max

\* The warning test with >= in place of >
TooHighOrEqual(comment_limit, max) == comment_limit >= max

\* if comment_limit > class_max: warn
TooHigh(comment_limit, max) == comment_limit > max

\* comment_limit after the if / elif / else; None where the code has None
comment_limit(cfg) ==
    IF cfg.comment_limit < 0 THEN class_max(cfg)
    ELSE IF cfg.comment_limit = 0 THEN None
    ELSE IF TooHigh(cfg.comment_limit, class_max(cfg)) THEN class_max(cfg)
    ELSE cfg.comment_limit

\* if comment_limit: url_data['limit'] = comment_limit
get_info(cfg) ==
    [limit  |-> IF comment_limit(cfg) # None /\ comment_limit(cfg) # 0
                THEN comment_limit(cfg) ELSE None,
     warned |-> cfg.comment_limit > 0
                /\ TooHigh(cfg.comment_limit, class_max(cfg))]

\* The configurations get_info is checked with.
Configs ==
    [comment_limit : (0 - MaxLimit)..MaxLimit, is_gold : BOOLEAN,
     gold_comments_max : 0..MaxClassMax, regular_comments_max : 0..MaxClassMax]

\* The configuration of the specifications that are not about get_info:
\* comment_limit 0 (the server's default), a user without gold.
DefaultConfig ==
    [comment_limit |-> 0, is_gold |-> FALSE,
     gold_comments_max |-> MaxClassMax, regular_comments_max |-> MaxClassMax]

\* The state after Submission.__init__, before a configuration is chosen.
InitForest ==
    /\ comments = NoneSeq
    /\ comments_by_id = EmptyDict
    /\ orphaned = EmptyDict
    /\ all_comments = FALSE
    /\ comments_flat = NoneSeq
    /\ replies = [o \in Objects |-> World[o].replies]
    /\ mc_comments = [o \in Objects |-> NoneSeq]
    /\ submission = {}
    /\ more_comments_max \in (-1)..MaxBudget
    /\ constructed = {}
    /\ pc = "idle"
    /\ queue = <<>>
    /\ remaining = None
    /\ skipped = <<>>
    /\ requests = 0
    /\ warning = None
    /\ inserts = 0
    /\ was_orphan = {}
    /\ calls = 0
    /\ raised = FALSE
    /\ url_data = [limit |-> None, warned |-> FALSE]
    /\ replies_fetches = [o \in Objects |-> 0]

Init == InitForest /\ config = DefaultConfig

InitInfo == InitForest /\ config \in Configs

\* submission.comments = listing  (Submission.get_info, the comments getter)
Load(listing) ==
    /\ pc = "idle"
    /\ NestedAll(listing) \cap constructed = {}
    /\ SetForest(comments_setter(Forest, listing))
    /\ all_comments' = FALSE
    /\ comments_flat' = NoneSeq
    /\ constructed' = constructed \cup NestedAll(listing)
    /\ inserts' = 0
    /\ raised' = FALSE
    /\ url_data' = get_info(config)
    /\ UNCHANGED << mc_comments, more_comments_max, ExpandLocals, calls,
                    config, replies_fetches >>

\* A call of _insert_comment with a newly built comment without replies.
Insert(c) ==
    /\ pc = "idle"
    /\ comments # NoneSeq
    /\ inserts < MaxInserts
    /\ c \in Things \ constructed
    /\ IsComment(c)
    /\ replies[c] = <<>>
    /\ SetForest(_insert_comment(Forest, c))
    /\ constructed' = constructed \cup {c}
    /\ inserts' = inserts + 1
    /\ raised' = FALSE
    /\ UNCHANGED << all_comments, comments_flat, mc_comments,
                    more_comments_max, ExpandLocals, calls,
                    config, url_data, replies_fetches >>

\* Submission.comments_flat
CommentsFlat ==
    /\ pc = "idle"
    /\ comments # NoneSeq
    /\ IF comments_flat = NoneSeq \/ comments_flat = <<>>
       THEN LET r == Flatten(Forest)
            IN  /\ comments_flat' = r.flat
                /\ raised' = ~r.ok
       ELSE /\ comments_flat' = comments_flat
            /\ raised' = FALSE
    /\ UNCHANGED << comments, comments_by_id, orphaned, all_comments, replies,
                    mc_comments, submission, more_comments_max, constructed,
                    ExpandLocals, inserts, was_orphan, calls,
                    config, url_data, replies_fetches >>

(***************************************************************************)
(* Submission._replace_more_comments, one loop iteration per step: a       *)
(* request to the morechildren endpoint is where the routine waits.        *)
(***************************************************************************)

\* The lists of at most n different members of pool.
RECURSIVE Lists(_, _)
Lists(pool, n) ==
    IF n = 0 THEN { <<>> }
    ELSE { <<>> } \cup
         UNION { { <<o>> \o r : r \in Lists(pool \ {o}, n - 1) } : o \in pool }

\* What the endpoint may answer to m's request with: a comment that m lists
\* as a child (also one the forest knows by now), or a further placeholder.
Answers(m, o) ==
    \/ IsMore(o)
    \/ \E k \in 1..Len(World[m].children) : World[m].children[k] = World[o].id

\* response['data']['things'] of m's request: up to MaxResp newly built things
Responses(m) ==
    Lists({ o \in Things \ constructed : Answers(m, o) }, MaxResp)

Range(list) == { list[i] : i \in 1..Len(list) }

\* queue = [(None, x) for x in self.comments]
SeedQueue(list) == [i \in 1..Len(list) |-> << None, list[i] >>]

\* The Comment branch of the loop putting the comment itself back
EnqueueAgain(q, comm, list) == q \o << << comm, comm >> >>

\* The Comment branch of the loop without the descent into the replies
EnqueueNothing(q, comm, list) == q

\* for item in comm.replies: queue.append((comm, item))
Enqueue(q, comm, list) == q \o [i \in 1..Len(list) |-> << comm, list[i] >>]

\* The removal without the branch for parent.replies
RemovedFromRootsOnly(F, parent, comm) ==
    IF parent = None THEN [F EXCEPT !.comments = ListRemove(@, comm)] ELSE F

\* parent.replies.remove(comm) / self._comments.remove(comm); (0, comm) is in neither
Removed(F, parent, comm) ==
    IF parent # None /\ parent # 0
    THEN [F EXCEPT !.replies[parent] = ListRemove(@, comm)]
    ELSE IF parent = None
    THEN [F EXCEPT !.comments = ListRemove(@, comm)]
    ELSE F

\* The limit test with < in place of <=
ExhaustedBelowZero(r) == r # None /\ r < 0

\* Skip after reaching the limit
Exhausted(r) == r # None /\ r <= 0

\* MoreComments.comments: is the memoized list returned?
Memoized(m) == mc_comments[m] # NoneSeq /\ mc_comments[m] # <<>>

\* MoreComments.comments: the children that are not in _comments_by_id yet
Unknown(m, by_id) ==
    SelectSeq(World[m].children, LAMBDA x : ("t1_" \o x) \notin DOMAIN by_id)

\* elif remaining is not None: remaining -= 1
Decrement(r) == IF r # None THEN r - 1 ELSE r

\* The loop over new_comments with queue.append in place of queue.insert(0, ...)
RECURSIVE ProcessNewAtBack(_, _, _)
ProcessNewAtBack(F, q, new_comments) ==
    IF new_comments = <<>> THEN [F |-> F, queue |-> q, ok |-> TRUE]
    ELSE LET comment == Head(new_comments)
         IN  IF IsMore(comment)
             THEN ProcessNewAtBack(_update_submission(F, comment),
                                   q \o << << 0, comment >> >>, Tail(new_comments))
             ELSE IF F.replies[comment] # <<>>
             THEN [F |-> F, queue |-> q, ok |-> FALSE]
             ELSE ProcessNewAtBack(_insert_comment([F EXCEPT !.replies[comment] = <<>>],
                                                   comment),
                                   q, Tail(new_comments))

\* for comment in new_comments: ... ; ok is FALSE when the assertion on
\* comment._replies fails, with the items before it already processed.
RECURSIVE ProcessNew(_, _, _)
ProcessNew(F, q, new_comments) ==
    IF new_comments = <<>> THEN [F |-> F, queue |-> q, ok |-> TRUE]
    ELSE LET comment == Head(new_comments)
         IN  IF IsMore(comment)
             THEN ProcessNew(_update_submission(F, comment),
                             << << 0, comment >> >> \o q, Tail(new_comments))
             ELSE IF F.replies[comment] # <<>>
             THEN [F |-> F, queue |-> q, ok |-> FALSE]
             ELSE ProcessNew(_insert_comment([F EXCEPT !.replies[comment] = <<>>],
                                             comment),
                             q, Tail(new_comments))

\* The warning without its condition
WarningAlways(skip) == Len(skip)

\* The count the warning after the loop names; None when there is no warning.
Warning(skip) == IF skip # <<>> THEN Len(skip) ELSE None

\* all_comments without the test of _all_comments
AllCommentsAgain ==
    /\ pc = "idle"
    /\ comments # NoneSeq
    /\ pc' = "loop"
    /\ queue' = SeedQueue(comments)
    /\ remaining' = IF more_comments_max < 0 THEN None ELSE more_comments_max
    /\ skipped' = <<>>
    /\ requests' = 0
    /\ warning' = None
    /\ raised' = FALSE
    /\ UNCHANGED << comments, comments_by_id, orphaned, all_comments,
                    comments_flat, replies, mc_comments, submission,
                    more_comments_max, constructed, inserts, was_orphan, calls,
                    config, url_data, replies_fetches >>

\* The all_comments property.  With _comments None the comments getter loads
\* the listing first: that is Load followed by this step.
AllComments ==
    /\ pc = "idle"
    /\ comments # NoneSeq
    /\ IF all_comments
       THEN /\ raised' = FALSE
            /\ UNCHANGED ExpandLocals
       ELSE /\ pc' = "loop"
            /\ queue' = SeedQueue(comments)
            /\ remaining' = IF more_comments_max < 0 THEN None ELSE more_comments_max
            /\ skipped' = <<>>
            /\ requests' = 0
            /\ warning' = None
            /\ raised' = FALSE
    /\ UNCHANGED << comments, comments_by_id, orphaned, all_comments,
                    comments_flat, replies, mc_comments, submission,
                    more_comments_max, constructed, inserts, was_orphan, calls,
                    config, url_data, replies_fetches >>

Parent == Head(queue)[1]
Comm == Head(queue)[2]

\* comm is a Comment: its replies join the back of the queue
StepComment ==
    /\ pc = "loop" /\ queue # <<>>
    /\ IsComment(Comm)
    /\ queue' = Enqueue(Tail(queue), Comm, replies[Comm])
    /\ raised' = FALSE
    /\ UNCHANGED << comments, comments_by_id, orphaned, all_comments,
                    comments_flat, replies, mc_comments, submission,
                    more_comments_max, constructed, pc, remaining, skipped,
                    requests, warning, inserts, was_orphan, calls,
                    config, url_data, replies_fetches >>

\* The skip with the budget test placed before the removal
StepSkipInPlace ==
    /\ pc = "loop" /\ queue # <<>>
    /\ IsMore(Comm)
    /\ Exhausted(remaining)
    /\ skipped' = Append(skipped, Comm)
    /\ queue' = Tail(queue)
    /\ raised' = FALSE
    /\ UNCHANGED << comments, comments_by_id, orphaned, replies, submission,
                    was_orphan, all_comments, comments_flat, mc_comments,
                    more_comments_max, constructed, pc, remaining, requests,
                    warning, inserts, calls,
                    config, url_data, replies_fetches >>

\* comm is a MoreComments and the limit is reached
StepSkip ==
    /\ pc = "loop" /\ queue # <<>>
    /\ IsMore(Comm)
    /\ Exhausted(remaining)
    /\ SetForest(Removed(Forest, Parent, Comm))
    /\ skipped' = Append(skipped, Comm)
    /\ queue' = Tail(queue)
    /\ raised' = FALSE
    /\ UNCHANGED << all_comments, comments_flat, mc_comments,
                    more_comments_max, constructed, pc, remaining, requests,
                    warning, inserts, calls,
                    config, url_data, replies_fetches >>

\* comm.comments(update=False) returns None: every child is known
StepNone ==
    /\ pc = "loop" /\ queue # <<>>
    /\ IsMore(Comm)
    /\ ~Exhausted(remaining)
    /\ ~Memoized(Comm)
    /\ Unknown(Comm, comments_by_id) = <<>>
    /\ SetForest(Removed(Forest, Parent, Comm))
    /\ queue' = Tail(queue)
    /\ raised' = FALSE
    /\ UNCHANGED << all_comments, comments_flat, mc_comments,
                    more_comments_max, constructed, pc, remaining, skipped,
                    requests, warning, inserts, calls,
                    config, url_data, replies_fetches >>

\* The rest of the iteration once comm.comments(update=False) returned a list.
Replace(new_comments, op) ==
    LET r == ProcessNew(Removed(Forest, Parent, Comm), Tail(queue), new_comments)
    IN  /\ SetForest(r.F)
        /\ IF r.ok
           THEN /\ pc' = "loop"
                /\ queue' = r.queue
                /\ remaining' = Decrement(remaining)
                /\ skipped' = skipped
                /\ raised' = FALSE
           ELSE /\ pc' = "idle"
                /\ queue' = <<>>
                /\ remaining' = None
                /\ skipped' = <<>>
                /\ raised' = TRUE

\* comm.comments(update=False) returns the list an earlier call has fetched
StepMemo ==
    /\ pc = "loop" /\ queue # <<>>
    /\ IsMore(Comm)
    /\ ~Exhausted(remaining)
    /\ Memoized(Comm)
    /\ Replace(mc_comments[Comm], "memo")
    /\ UNCHANGED << all_comments, comments_flat, mc_comments,
                    more_comments_max, constructed, requests, warning,
                    inserts, calls,
                    config, url_data, replies_fetches >>

\* comm.comments(update=False) requests the unknown children
StepFetch(resp) ==
    /\ pc = "loop" /\ queue # <<>>
    /\ IsMore(Comm)
    /\ ~Exhausted(remaining)
    /\ ~Memoized(Comm)
    /\ Unknown(Comm, comments_by_id) # <<>>
    /\ resp \in Responses(Comm)
    /\ requests' = requests + 1
    /\ mc_comments' = [mc_comments EXCEPT ![Comm] = resp]
    /\ constructed' = constructed \cup NestedAll(resp)
    /\ Replace(resp, "fetch")
    /\ UNCHANGED << all_comments, comments_flat, more_comments_max, warning,
                    inserts, calls,
                    config, url_data, replies_fetches >>

\* the request raises: the error leaves _replace_more_comments and all_comments
StepFetchError ==
    /\ pc = "loop" /\ queue # <<>>
    /\ IsMore(Comm)
    /\ ~Exhausted(remaining)
    /\ ~Memoized(Comm)
    /\ Unknown(Comm, comments_by_id) # <<>>
    /\ SetForest(Removed(Forest, Parent, Comm))
    /\ requests' = requests + 1
    /\ pc' = "idle"
    /\ queue' = <<>>
    /\ remaining' = None
    /\ skipped' = <<>>
    /\ raised' = TRUE
    /\ UNCHANGED << all_comments, comments_flat, mc_comments,
                    more_comments_max, constructed, warning, inserts, calls,
                    config, url_data, replies_fetches >>

\* the queue is empty: the warning, then all_comments sets its two fields
Finish ==
    /\ pc = "loop" /\ queue = <<>>
    /\ warning' = Warning(skipped)
    /\ all_comments' = TRUE
    /\ comments_flat' = NoneSeq
    /\ pc' = "idle"
    /\ remaining' = None
    /\ raised' = FALSE
    /\ UNCHANGED << comments, comments_by_id, orphaned, replies, mc_comments,
                    submission, more_comments_max, constructed, queue,
                    skipped, requests, inserts, was_orphan, calls,
                    config, url_data, replies_fetches >>

(***************************************************************************)
(* MoreComments.comments(update) called from outside on a placeholder the  *)
(* caller holds (one that has its submission reference).                   *)
(***************************************************************************)
Held(m) == m \in constructed /\ IsMore(m) /\ m \in submission

\* No request: the memoized list is returned, or None as every child is known.
\* Nothing changes.
CommentsNoRequest(m) ==
    /\ pc = "idle"
    /\ Held(m)
    /\ Memoized(m) \/ Unknown(m, comments_by_id) = <<>>
    /\ UNCHANGED vars

\* The request is made and answered; update is True by default, so each
\* thing of the response gets its submission reference.
CommentsFetch(m, resp) ==
    /\ pc = "idle"
    /\ Held(m)
    /\ calls < MaxCalls
    /\ ~Memoized(m)
    /\ Unknown(m, comments_by_id) # <<>>
    /\ resp \in Responses(m)
    /\ mc_comments' = [mc_comments EXCEPT ![m] = resp]
    /\ constructed' = constructed \cup NestedAll(resp)
    /\ SetForest(UpdateEach(Forest, resp))
    /\ calls' = calls + 1
    /\ raised' = FALSE
    /\ UNCHANGED << all_comments, comments_flat, more_comments_max,
                    ExpandLocals, inserts, config, url_data, replies_fetches >>

\* The request raises.  Nothing changes.
CommentsFetchError(m) ==
    /\ pc = "idle"
    /\ Held(m)
    /\ ~Memoized(m)
    /\ Unknown(m, comments_by_id) # <<>>
    /\ UNCHANGED vars

Call ==
    \/ \E m \in Objects : CommentsNoRequest(m)
    \/ \E m \in Objects :
           /\ pc = "idle" /\ Held(m)
           /\ \E resp \in Responses(m) : CommentsFetch(m, resp)
    \/ \E m \in Objects : CommentsFetchError(m)

\* One step of _replace_more_comments, when no placeholder was asked before.
Step ==
    \/ StepComment
    \/ StepSkip
    \/ StepNone
    \/ /\ pc = "loop" /\ queue # <<>>
       /\ \E resp \in Responses(Comm) : StepFetch(resp)
    \/ StepFetchError
    \/ Finish

\* The operations a user of the library calls.
Next ==
    \/ \E listing \in Listings : Load(listing)
    \/ CommentsFlat
    \/ AllComments
    \/ Step
    \/ StepMemo
    \/ Call

Spec == Init /\ [][Next]_vars

\* The loop of _replace_more_comments goes on while the queue is not empty:
\* each iteration ends, with the request answered or raising.
Loop == Step \/ StepMemo

SpecLive == Init /\ [][Next]_vars /\ WF_vars(Loop)

\* Loading the comments under every configuration.
NextInfo == \E listing \in Listings : Load(listing)

SpecInfo == InitInfo /\ [][NextInfo]_vars

(***************************************************************************)
(* Comment.replies, read on a comment built without a replies tree.        *)
(***************************************************************************)

\* The test with truthiness in place of "is None"
UnresolvedOrEmpty(c) == replies[c] = NoneSeq \/ replies[c] = <<>>

\* if self._replies is None
Unresolved(c) == replies[c] = NoneSeq

\* response[1]['data']['children'][0]._replies: the list Comment.__init__ has
\* built for the comment of the response, or None when its JSON has no tree.
RepliesAnswers == { NoneSeq, <<>>, <<15>> }

\* The list is there: it is returned, nothing changes.
RepliesKnown(c) ==
    /\ pc = "idle"
    /\ c \in Loose
    /\ ~Unresolved(c)
    /\ UNCHANGED vars

\* The request is made and answered.
RepliesFetch(c, answer) ==
    /\ pc = "idle"
    /\ c \in Loose
    /\ Unresolved(c)
    /\ replies_fetches[c] < MaxFetches
    /\ replies_fetches' = [replies_fetches EXCEPT ![c] = @ + 1]
    /\ replies' = [replies EXCEPT ![c] = answer]
    /\ raised' = FALSE
    /\ UNCHANGED << comments, comments_by_id, orphaned, all_comments,
                    comments_flat, mc_comments, submission, more_comments_max,
                    constructed, ExpandLocals, inserts, was_orphan, calls,
                    config, url_data >>

\* The request raises: _replies stays None.
RepliesFetchError(c) ==
    /\ pc = "idle"
    /\ c \in Loose
    /\ Unresolved(c)
    /\ replies_fetches[c] < MaxFetches
    /\ replies_fetches' = [replies_fetches EXCEPT ![c] = @ + 1]
    /\ raised' = TRUE
    /\ UNCHANGED << comments, comments_by_id, orphaned, all_comments,
                    comments_flat, replies, mc_comments, submission,
                    more_comments_max, constructed, ExpandLocals, inserts,
                    was_orphan, calls, config, url_data >>

NextReplies ==
    \/ \E c \in Loose : RepliesKnown(c)
    \/ \E c \in Loose : \E answer \in RepliesAnswers : RepliesFetch(c, answer)
    \/ \E c \in Loose : RepliesFetchError(c)

SpecReplies == Init /\ [][NextReplies]_vars

\* The forest's operations, _insert_comment called directly among them,
\* without calls of MoreComments.comments from outside.
NextInsert ==
    \/ \E listing \in Listings : Load(listing)
    \/ \E c \in Things : Insert(c)
    \/ CommentsFlat
    \/ AllComments
    \/ Step

SpecInsert == Init /\ [][NextInsert]_vars

\* submission.comments = listing, on a submission whose comments were loaded
Reload(listing) ==
    /\ comments # NoneSeq
    /\ Load(listing)

\* Loading, expanding, and assigning the comments again.
NextReload ==
    \/ \E listing \in Listings : Load(listing)
    \/ \E listing \in Relistings : Reload(listing)
    \/ AllComments
    \/ Step

SpecReload == Init /\ [][NextReload]_vars

(***************************************************************************)
(* What the properties speak of.                                           *)
(***************************************************************************)

\* The nodes that can be reached from the roots of F through replies lists.
RECURSIVE ReachFrom(_, _, _)
ReachFrom(F, todo, seen) ==
    IF todo = {} THEN seen
    ELSE LET o == CHOOSE x \in todo : TRUE
             below == IF IsComment(o) THEN Range(F.replies[o]) ELSE {}
         IN  ReachFrom(F, (todo \cup below) \ (seen \cup {o}), seen \cup {o})

Reachable(F) ==
    IF F.comments = NoneSeq THEN {} ELSE ReachFrom(F, Range(F.comments), {})

\* How often list holds o.
Count(list, o) == Cardinality({ i \in 1..Len(list) : list[i] = o })

\* The positions reachable from the roots, in pre-order: each item of list
\* followed by the positions below it.
RECURSIVE Preorder(_, _)
Preorder(F, list) ==
    IF list = <<>> THEN <<>>
    ELSE LET o == Head(list)
         IN  << o >>
             \o (IF IsComment(o) THEN Preorder(F, F.replies[o]) ELSE <<>>)
             \o Preorder(F, Tail(list))

\* o is an item of some replies list, reachable or not.
InSomeReplies(F, o) ==
    \E p \in Objects : IsComment(p) /\ \E i \in 1..Len(F.replies[p]) : F.replies[p][i] = o

\* o is held in some list of _orphaned.
InOrphaned(F, o) ==
    \E k \in DOMAIN F.orphaned : \E i \in 1..Len(F.orphaned[k]) : F.orphaned[k][i] = o

\* The forest of F: roots, replies lists, by_id and orphans.
SameForest(F, G) ==
    /\ F.comments = G.comments
    /\ F.replies = G.replies
    /\ F.comments_by_id = G.comments_by_id
    /\ F.orphaned = G.orphaned

\* The comments _insert_comment can be called with next: built by now from no
\* response, and without replies.
Fresh == { c \in Things \ constructed : IsComment(c) /\ replies[c] = <<>> }

(***************************************************************************)
(* C1. Orphan reunification: for a parent P and a child C (C.parent_id =   *)
(* P.name), inserting C then P gives the same forest as inserting P then   *)
(* C; when neither is known, C alone is stored under orphans[P.name], and  *)
(* after P too by_id[P.name].replies holds C exactly once and orphans has  *)
(* no key P.name.                                                          *)
(***************************************************************************)
C1_OrphanReunification ==
    comments # NoneSeq =>
      \A P \in Fresh, C \in Fresh :
        (P # C /\ name(P) # name(C) /\ parent_id(C) = name(P)) =>
          LET onlyC == _insert_comment(Forest, C)
              CP == _insert_comment(onlyC, P)
              PC == _insert_comment(_insert_comment(Forest, P), C)
          IN  /\ SameForest(CP, PC)
              /\ (name(P) \notin DOMAIN comments_by_id /\ name(C) \notin DOMAIN comments_by_id) =>
                   /\ name(P) \in DOMAIN onlyC.orphaned
                   /\ Count(onlyC.orphaned[name(P)], C) = 1
                   /\ name(P) \in DOMAIN CP.comments_by_id
                   /\ Count(CP.replies[CP.comments_by_id[name(P)]], C) = 1
                   /\ name(P) \notin DOMAIN CP.orphaned

\* A child that waited in orphans is now, once, in the replies of its parent.
C1_Witness ==
    \E C \in was_orphan :
        /\ parent_id(C) \in DOMAIN comments_by_id
        /\ Count(replies[comments_by_id[parent_id(C)]], C) = 1
        /\ parent_id(C) \notin DOMAIN orphaned

(***************************************************************************)
(* C2. Idempotent insertion: _insert_comment(c) with a comment named       *)
(* c.name already in by_id changes nothing of the forest; so inserting a   *)
(* comment twice (the same object, or another delivery of the same name)   *)
(* leaves the forest that inserting it once leaves.                        *)
(***************************************************************************)
C2_IdempotentInsertion ==
    comments # NoneSeq =>
      /\ \A c \in Objects :
           (IsComment(c) /\ name(c) \in DOMAIN comments_by_id) =>
               SameForest(_insert_comment(Forest, c), Forest)
      /\ \A c \in Fresh, c2 \in Fresh :
           name(c) = name(c2) =>
               SameForest(_insert_comment(_insert_comment(Forest, c), c2),
                          _insert_comment(Forest, c))

\* A second delivery of e has been inserted while e was known.
C2_Witness ==
    /\ pc = "idle"
    /\ {8, 9} \subseteq constructed
    /\ "t1_e" \in DOMAIN comments_by_id
    /\ \E o \in {8, 9} :
         /\ comments_by_id["t1_e"] = o
         /\ InSomeReplies(Forest, o) \/ InOrphaned(Forest, o)
    /\ \E o \in {8, 9} :
         /\ comments_by_id["t1_e"] # o
         /\ ~InSomeReplies(Forest, o) /\ ~InOrphaned(Forest, o)

(***************************************************************************)
(* C3. Root classification: a comment not known yet whose parent_id is     *)
(* null or the submission's content id is appended to the roots by         *)
(* _insert_comment, and neither then nor later is it an item of a replies  *)
(* list or of orphans.                                                     *)
(***************************************************************************)
C3_RootClassification ==
    comments # NoneSeq =>
      /\ \A c \in Fresh :
           (name(c) \notin DOMAIN comments_by_id
              /\ (parent_id(c) = "None" \/ parent_id(c) = SubmissionId)) =>
               LET G == _insert_comment(Forest, c)
               IN  /\ G.comments = Append(comments, c)
                   /\ ~InSomeReplies(G, c)
                   /\ ~InOrphaned(G, c)
      /\ \A c \in Things :
           (IsComment(c) /\ (parent_id(c) = "None" \/ parent_id(c) = SubmissionId)) =>
               ~InSomeReplies(Forest, c) /\ ~InOrphaned(Forest, c)

\* Both kinds of top-level comment have been inserted and are roots.
C3_Witness ==
    /\ comments # NoneSeq
    /\ Count(comments, 6) = 1
    /\ Count(comments, 10) = 1

(***************************************************************************)
(* C4. Expansion drains placeholders: with an unlimited budget             *)
(* (more_comments_max < 0), once all_comments has returned, _all_comments  *)
(* is true and no MoreComments can be reached from the roots.              *)
(***************************************************************************)
Placeholders(F) == { o \in Reachable(F) : IsMore(o) }

C4_ExpansionDrains ==
    /\ [](/\ (pc = "loop" /\ queue = <<>> /\ more_comments_max < 0) =>
                 Placeholders(Forest) = {}
          /\ (pc = "idle" /\ all_comments /\ more_comments_max < 0) =>
                 Placeholders(Forest) = {})
    /\ [][(pc = "loop" /\ pc' = "idle" /\ ~raised' /\ more_comments_max < 0) =>
              (all_comments' /\ Placeholders(Forest)' = {})]_vars

\* An unlimited expansion that made requests has returned; the forest it
\* started from held placeholders at the roots and nested in replies lists.
C4_Witness ==
    /\ pc = "idle" /\ all_comments /\ ~raised
    /\ more_comments_max < 0
    /\ requests >= 2
    /\ {3, 4, 5} \subseteq constructed
    /\ Placeholders(Forest) = {}

(***************************************************************************)
(* C5. Budget ceiling: with more_comments_max = K >= 0 one run of          *)
(* _replace_more_comments makes at most K requests, whatever the           *)
(* responses hold; with K = 0 it makes none.                               *)
(***************************************************************************)
C5_BudgetCeiling ==
    more_comments_max >= 0 => requests <= more_comments_max

\* The budget was used up and a placeholder that needed a request was left.
C5_Witness ==
    /\ pc = "loop"
    /\ more_comments_max = 1
    /\ requests = 1
    /\ skipped # <<>>

(***************************************************************************)
(* C6 as claimed: a placeholder skipped for budget reasons is still in     *)
(* the container (the roots or its parent's replies) it was in.            *)
(***************************************************************************)
C6_SkippedLeftInPlace ==
    \A i \in 1..Len(skipped) :
        Count(comments, skipped[i]) > 0 \/ InSomeReplies(Forest, skipped[i])

(***************************************************************************)
(* C6 as amended: a placeholder skipped for budget reasons has been        *)
(* removed from its container like an expanded one: during and after the   *)
(* expansion it is an item neither of the roots nor of a replies list.     *)
(***************************************************************************)
C6_SkippedRemoved ==
    \A i \in 1..Len(skipped) :
        Count(comments, skipped[i]) = 0 /\ ~InSomeReplies(Forest, skipped[i])

\* An expansion has returned that skipped a placeholder of the listing.
C6_Witness ==
    /\ pc = "idle" /\ all_comments
    /\ \E i \in 1..Len(skipped) : skipped[i] \in {3, 4, 5}

(***************************************************************************)
(* C7. Skip warning: when _replace_more_comments ends, a warning is        *)
(* emitted exactly if a placeholder was skipped for budget reasons, and    *)
(* it names the number of placeholders skipped; with an unlimited budget   *)
(* there is none.                                                          *)
(***************************************************************************)
C7_SkipWarning ==
    /\ (pc = "idle" /\ all_comments) =>
         /\ (warning # None) <=> (skipped # <<>>)
         /\ warning # None => warning = Len(skipped)
    /\ pc = "loop" => warning = None
    /\ more_comments_max < 0 => warning = None /\ skipped = <<>>
    /\ skipped # <<>> => more_comments_max >= 0

\* An expansion has returned that warned of two skipped placeholders.
C7_Witness ==
    /\ pc = "idle" /\ all_comments
    /\ warning = 2
    /\ Len(skipped) = 2

(***************************************************************************)
(* C8. Resolved empty: when _replace_more_comments dequeues, with budget   *)
(* remaining, a placeholder all of whose children are in by_id, the        *)
(* iteration makes no request, leaves the remaining budget as it is,       *)
(* inserts nothing, and the placeholder is no longer in the tree.          *)
(***************************************************************************)
C8_ResolvedEmpty ==
    [][(/\ pc = "loop" /\ queue # <<>>
        /\ IsMore(Comm)
        /\ ~Exhausted(remaining)
        /\ Unknown(Comm, comments_by_id) = <<>>
        /\ pc' = "loop")
       => (/\ requests' = requests
           /\ remaining' = remaining
           /\ comments_by_id' = comments_by_id
           /\ orphaned' = orphaned
           /\ comments' = Removed(Forest, Parent, Comm).comments
           /\ replies' = Removed(Forest, Parent, Comm).replies
           /\ Comm \notin Reachable(Forest)')]_vars

(***************************************************************************)
(* C9. Flattening: whenever comments_flat can be called, the list it       *)
(* returns is the pre-order traversal of the roots (each node followed at  *)
(* once by the traversal of its replies), and holds each node reachable    *)
(* from the roots exactly once.                                            *)
(***************************************************************************)
\* What a call of comments_flat returns in this state.
Returned ==
    IF comments_flat = NoneSeq \/ comments_flat = <<>>
    THEN Flatten(Forest).flat
    ELSE comments_flat

C9_Flattening ==
    (pc = "idle" /\ comments # NoneSeq) =>
        /\ Returned = Preorder(Forest, comments)
        /\ \A o \in Reachable(Forest) : Count(Returned, o) = 1
        /\ Len(Returned) = Cardinality(Reachable(Forest))

(***************************************************************************)
(* C10. by_id: after the listing is loaded, through every sequence of      *)
(* _insert_comment and _replace_more_comments steps, each comment          *)
(* reachable from the roots is the value of _comments_by_id at its name,   *)
(* and no comment name is held at more than one reachable position.        *)
(***************************************************************************)
C10_ByIdInvariant ==
    comments # NoneSeq =>
        LET at == Preorder(Forest, comments)
        IN  /\ \A i \in 1..Len(at) :
                   IsComment(at[i]) =>
                       /\ name(at[i]) \in DOMAIN comments_by_id
                       /\ comments_by_id[name(at[i])] = at[i]
            /\ \A i \in 1..Len(at), j \in 1..Len(at) :
                   (i < j /\ IsComment(at[i]) /\ IsComment(at[j])) =>
                       name(at[i]) # name(at[j])

\* After an insertion and an expansion that fetched, a comment of a response
\* and a second delivery of a name are both built, one of them in the tree.
C10_Witness ==
    /\ pc = "idle" /\ all_comments
    /\ inserts = 1
    /\ requests >= 1
    /\ {8, 9} \subseteq constructed
    /\ \E o \in {8, 9} : o \in Reachable(Forest)

(***************************************************************************)
(* C11. Orphans: in every state no key of _orphaned is the name of a       *)
(* comment registered in _comments_by_id; registering a comment drains     *)
(* the orphan entry keyed by its name in the same step.                    *)
(***************************************************************************)
C11_OrphansInvariant ==
    \A k \in DOMAIN orphaned : k \notin DOMAIN comments_by_id

(***************************************************************************)
(* C12. Flatten cache freshness: whenever comments_flat can be called and  *)
(* a memoized list is kept, that list is the traversal of the current      *)
(* forest, never one computed before a later insertion or removal.         *)
(***************************************************************************)
C12_FlatCacheFresh ==
    (pc = "idle" /\ comments # NoneSeq
       /\ comments_flat # NoneSeq /\ comments_flat # <<>>) =>
        comments_flat = Flatten(Forest).flat

(***************************************************************************)
(* C13. Expansion once: after all_comments has returned for the loaded     *)
(* comments, a further access to all_comments or all_comments_flat makes   *)
(* no request and leaves roots, replies lists, by_id and orphans as they   *)
(* are, also when the expansion skipped placeholders.  Only a new load or  *)
(* a call of MoreComments.comments from outside is another matter.         *)
(***************************************************************************)
C13_ExpansionOnce ==
    [][(pc = "idle" /\ all_comments /\ all_comments' /\ calls' = calls) =>
          /\ pc' = "idle"
          /\ requests' = requests
          /\ comments' = comments
          /\ replies' = replies
          /\ comments_by_id' = comments_by_id
          /\ orphaned' = orphaned]_vars

\* After an expansion that skipped a placeholder, all_comments_flat has been
\* read again: the list it returns has been computed anew.
C13_Witness ==
    /\ pc = "idle" /\ all_comments
    /\ skipped # <<>>
    /\ comments_flat # NoneSeq

(***************************************************************************)
(* C14 as claimed: _all_comments is never true while a placeholder that    *)
(* was skipped for budget has not been resolved (fetched, or found to      *)
(* have no unknown children).                                              *)
(***************************************************************************)
Resolved(m) == mc_comments[m] # NoneSeq \/ Unknown(m, comments_by_id) = <<>>

C14_TrueOnlyWhenResolved ==
    all_comments => \A i \in 1..Len(skipped) : Resolved(skipped[i])

(***************************************************************************)
(* C14 as amended: _all_comments is true once a run of                     *)
(* _replace_more_comments has ended without raising, whether or not it     *)
(* skipped placeholders; then no call is in progress and no placeholder    *)
(* is left in the forest, the skipped ones having been removed unresolved. *)
(***************************************************************************)
C14_TrueAfterRun ==
    /\ [](all_comments => (pc = "idle" /\ Placeholders(Forest) = {}))
    /\ [][(pc = "loop" /\ pc' = "idle" /\ ~raised') => all_comments']_vars
    /\ [][(~all_comments /\ all_comments') => (pc = "loop" /\ queue = <<>>)]_vars

\* _all_comments is true and a skipped placeholder has unknown children that
\* were never asked for.
C14_Witness ==
    /\ pc = "idle" /\ all_comments
    /\ \E i \in 1..Len(skipped) : ~Resolved(skipped[i])

(***************************************************************************)
(* C17. No silent loss except orphans: every comment registered in         *)
(* _comments_by_id is reachable from the roots or lies in the subtree of   *)
(* a comment held in _orphaned; and no comment held in _orphaned is in     *)
(* the list comments_flat returns.                                         *)
(***************************************************************************)
OrphanRoots == UNION { Range(orphaned[k]) : k \in DOMAIN orphaned }

C17_NoSilentLoss ==
    (pc = "idle" /\ comments # NoneSeq) =>
        /\ \A n \in DOMAIN comments_by_id :
               comments_by_id[n] \in
                   Reachable(Forest) \cup ReachFrom(Forest, OrphanRoots, {})
        /\ \A o \in OrphanRoots : Count(Returned, o) = 0

(***************************************************************************)
(* C19. Transport failure during expansion: when the request for a         *)
(* placeholder raises, _all_comments stays false and roots, replies        *)
(* lists, by_id and orphans are as they were before the placeholder was    *)
(* dequeued, the placeholder still in its container.                       *)
(***************************************************************************)
C19_TransportFailure ==
    [][StepFetchError =>
          /\ ~all_comments'
          /\ comments' = comments
          /\ replies' = replies
          /\ comments_by_id' = comments_by_id
          /\ orphaned' = orphaned
          /\ (Count(comments', Comm) > 0 \/ InSomeReplies(Forest, Comm)')]_vars

(***************************************************************************)
(* C15. Expansion terminates: for every budget (negative, zero, positive)  *)
(* and whatever the responses hold, further placeholders included, a run   *)
(* of _replace_more_comments that has started reaches the end of the       *)
(* loop and returns (or leaves by an exception).                           *)
(***************************************************************************)
C15_ExpansionTerminates == (pc = "loop") ~> (pc = "idle")

\* An unlimited run has returned after a response that held a further
\* placeholder, which was asked in its turn.
C15_Witness ==
    /\ pc = "idle" /\ all_comments
    /\ more_comments_max < 0
    /\ 12 \in constructed
    /\ mc_comments[12] # NoneSeq

(***************************************************************************)
(* C16. Malformed parent references degrade to orphan storage: for a       *)
(* comment not known yet and not a root whose parent_id names no other     *)
(* comment of the forest (an unknown name, or its own name),               *)
(* _insert_comment appends it to _orphaned[parent_id] and to no replies    *)
(* list.                                                                   *)
(***************************************************************************)
C16_MalformedParent ==
    comments # NoneSeq =>
      \A c \in Fresh :
        (/\ name(c) \notin DOMAIN comments_by_id
         /\ ~is_root(c)
         /\ (parent_id(c) \notin DOMAIN comments_by_id \/ parent_id(c) = name(c))) =>
            LET G == _insert_comment(Forest, c)
            IN  /\ parent_id(c) \in DOMAIN G.orphaned
                /\ Count(G.orphaned[parent_id(c)], c) = 1
                /\ ~InSomeReplies(G, c)

(***************************************************************************)
(* C18 as claimed: the replies accessor makes at most one request per      *)
(* comment over any sequence of accesses.                                  *)
(***************************************************************************)
C18_AtMostOneFetch ==
    \A c \in Loose : replies_fetches[c] <= 1

(***************************************************************************)
(* C18 as amended: the replies accessor makes a request only while         *)
(* _replies is None; once _replies is a list it stays that list and no     *)
(* further request is made for the comment.  A request that raises, or     *)
(* whose answer carries no replies list, leaves _replies None, and the     *)
(* next access makes another request.                                      *)
(***************************************************************************)
C18_LazyRepliesMemoized ==
    [][\A c \in Loose :
          /\ replies[c] # NoneSeq =>
                 (replies'[c] = replies[c] /\ replies_fetches'[c] = replies_fetches[c])
          /\ replies_fetches'[c] # replies_fetches[c] =>
                 (replies[c] = NoneSeq /\ replies_fetches'[c] = replies_fetches[c] + 1)]_vars

\* A comment's replies were resolved by the second request, the first having
\* left them unresolved.
C18_Witness ==
    /\ replies[14] = <<15>>
    /\ replies_fetches[14] = 2

(***************************************************************************)
(* C20. comment_limit in Submission.get_info, for a class maximum M > 0:   *)
(* a negative comment_limit sends limit = M, 0 sends no limit, a positive  *)
(* one sends min(comment_limit, M), and the warning is emitted exactly     *)
(* when comment_limit > M.                                                 *)
(***************************************************************************)
C20_CommentLimit ==
    (comments # NoneSeq /\ class_max(config) > 0) =>
        LET M == class_max(config)
            limit == config.comment_limit
        IN  /\ limit < 0 => url_data.limit = M
            /\ limit = 0 => url_data.limit = None
            /\ limit > 0 => url_data.limit = (IF limit < M THEN limit ELSE M)
            /\ url_data.warned <=> limit > M

\* The comments were requested with a comment_limit above the maximum of a
\* gold user: the maximum was sent and the warning emitted.
C20_Witness ==
    /\ comments # NoneSeq
    /\ config.is_gold
    /\ class_max(config) > 0
    /\ config.comment_limit > class_max(config)
    /\ url_data = [limit |-> class_max(config), warned |-> TRUE]

(***************************************************************************)
(* C21. Request ordering: each iteration of _replace_more_comments takes   *)
(* the front entry of the queue; the replies of a comment are appended at  *)
(* the back in their order; the placeholders of a response are put at the  *)
(* front, before every entry that was waiting, so they are dequeued (and   *)
(* their requests made) before those.                                      *)
(***************************************************************************)
C21_RequestOrdering ==
    [][(pc = "loop" /\ pc' = "loop" /\ queue # <<>>) =>
          IF IsComment(Comm)
          THEN queue' = Tail(queue) \o
                         [i \in 1..Len(replies[Comm]) |-> << Comm, replies[Comm][i] >>]
          ELSE \E k \in 0..Len(queue') :
                  /\ SubSeq(queue', k + 1, Len(queue')) = Tail(queue)
                  /\ \A i \in 1..k :
                         /\ IsMore(queue'[i][2])
                         /\ ListContains(mc_comments'[Comm], queue'[i][2])]_vars

\* A placeholder returned by a request is at the front of the queue, before
\* entries that were waiting when it was returned.
C21_Witness ==
    /\ pc = "loop"
    /\ Len(queue) > 1
    /\ Head(queue) = << 0, 12 >>

(***************************************************************************)
(* C22. Budget accounting: in each iteration of _replace_more_comments     *)
(* the remaining budget goes down by one if a request was made and stays   *)
(* as it is otherwise, also for a placeholder whose comments an earlier    *)
(* call of MoreComments.comments has fetched.                              *)
(***************************************************************************)
C22_BudgetAccounting ==
    [][(pc = "loop" /\ pc' = "loop" /\ remaining # None) =>
          remaining' = remaining - (requests' - requests)]_vars

(***************************************************************************)
(* C23. The duplicate assertion of comments_flat never fails: after the    *)
(* listing is loaded, through every sequence of _insert_comment calls and  *)
(* expansions (second deliveries, children before parents, parents that    *)
(* never arrive), the traversal meets no node twice.                       *)
(***************************************************************************)
C23_FlattenAssertion ==
    (pc = "idle" /\ comments # NoneSeq) => Flatten(Forest).ok

\* After an expansion with a second delivery of e and with orphans left, the
\* flattening has been computed.
C23_Witness ==
    /\ pc = "idle" /\ all_comments /\ ~raised
    /\ comments_flat # NoneSeq
    /\ {8, 9} \subseteq constructed
    /\ DOMAIN orphaned # {}

(***************************************************************************)
(* C24. Every comment of a response fetched during the expansion, also one *)
(* that arrives with a non-empty _replies list, has its replies set to []  *)
(* and is inserted; the expansion goes on to the next queue entry.         *)
(***************************************************************************)
C24_RepliesCleared ==
    [][(/\ pc = "loop" /\ queue # <<>> /\ IsMore(Comm)
        /\ requests' = requests + 1
        /\ mc_comments'[Comm] # mc_comments[Comm]) =>
          /\ pc' = "loop"
          /\ ~raised'
          /\ \A c \in Range(mc_comments'[Comm]) :
                 IsComment(c) => name(c) \in DOMAIN comments_by_id']_vars

(***************************************************************************)
(* C25. No rollback: _insert_comment and the expansion only add entries to *)
(* _comments_by_id and never change one, and every registered comment is   *)
(* held by the roots, by a replies list or by an orphan list at every      *)
(* moment, so also when the expansion returns after its budget ran out.    *)
(***************************************************************************)
Attached(F, c) ==
    \/ Count(F.comments, c) > 0
    \/ InSomeReplies(F, c)
    \/ InOrphaned(F, c)

C25_NoRollback ==
    /\ [](\A n \in DOMAIN comments_by_id : Attached(Forest, comments_by_id[n]))
    /\ [][\A n \in DOMAIN comments_by_id :
              /\ n \in DOMAIN comments_by_id'
              /\ comments_by_id'[n] = comments_by_id[n]]_vars

\* An expansion returned with placeholders skipped for the budget after a
\* request of it had inserted comments.
C25_Witness ==
    /\ pc = "idle" /\ all_comments
    /\ skipped # <<>>
    /\ requests > 0
    /\ \E n \in DOMAIN comments_by_id : comments_by_id[n] \in Things

(***************************************************************************)
(* C26. Assigning the comments property resets the forest: after it        *)
(* _orphaned is empty, _all_comments is False, _comments_flat is None and  *)
(* _comments_by_id holds exactly the names of the comments of the new      *)
(* listing, none left over from the set it replaces.                       *)
(***************************************************************************)
C26_SetterResets ==
    [][(\E listing \in Listings \cup Relistings : Load(listing)) =>
          /\ orphaned' = EmptyDict
          /\ ~all_comments'
          /\ comments_flat' = NoneSeq
          /\ DOMAIN comments_by_id' =
                 { name(o) : o \in { x \in NestedAll(comments') : IsComment(x) } }]_vars

====
